---- MODULE Spec2Model ----
(***************************************************************************)
(* Model of Streamlit.py, the Local Food Wastage Management dashboard:     *)
(* the listings filter builder (where_parts / params / where_sql), the     *)
(* data-access helpers run_query, safe_query and exec_write over the       *)
(* SQLite store, the st.cache_data memo of run_query, and the three CRUD   *)
(* form handlers and the Custom SQL tab that call them.                    *)
(* A Streamlit script run is abandoned at an st.* call when a rerun or a   *)
(* stop has been requested (a script-control exception that no             *)
(* `except Exception` catches); the form handlers model that outcome.      *)
(*                                                                         *)
(* SQL text is modelled as a sequence of tokens (strings), a DataFrame as  *)
(* a sequence of row records, a raised exception as a result with          *)
(* raised = TRUE.                                                          *)
(***************************************************************************)
EXTENDS Integers, Sequences, FiniteSets, TLC

VARIABLES
    \* ---- sidebar filter selections and the listings filter built from them
    city_f, ptype_f, ftype_f, mtype_f,
    where_parts, params, where_sql,
    fpc,
    \* ---- the SQLite store (DB_PATH) and the st.cache_data memo of run_query
    db,         \* the tables of the store
    trig,       \* whether the store holds a cascade trigger on food_listings
    cache,      \* statement+params -> memoized DataFrame
    \* ---- script threads (one per session) in the concurrent specification
    sess,
    \* ---- history
    ev          \* the last operation and what it returned or reported

fvars == <<city_f, ptype_f, ftype_f, mtype_f, where_parts, params, where_sql, fpc>>

svars == <<db, trig, cache, ev>>

vars == <<fvars, svars, sess>>

\* ------------------------------------------------------------------ bounds
\* Number of options each sidebar multiselect offers.
NumOpts == 2
\* Largest identity entered in a form or a query; food_listings grows up to
\* this rowid.
MaxId == 1
\* Largest quantity entered in the add_listing form.
MaxQty == 1
\* Largest number of results the st.cache_data memo holds at a time.
MaxMemo == 1
\* Sessions (script threads) of the concurrent specification.
NumSessions == 2

\* ------------------------------------------------------- filter builder
\* Options of a multiselect: the DISTINCT values read from the store.
Options(name) == { name \o ToString(i) : i \in 1..NumOpts }

\* A multiselect returns a list of distinct options, in selection order.
Selections(name) ==
    { s \in UNION { [1..n -> Options(name)] : n \in 0..NumOpts } :
        \A i, j \in DOMAIN s : i # j => s[i] # s[j] }

\* sep.join(parts) over token sequences: the separator is one token.
RECURSIVE Join(_, _)
Join(parts, sep) ==
    IF Len(parts) = 0 THEN << >>
    ELSE IF Len(parts) = 1 THEN parts[1]
    ELSE parts[1] \o <<sep>> \o Join(Tail(parts), sep)

\* f"{pfx}{i}", the bound-parameter name of position i (0-based) of a column.
ParamName(pfx, i) == pfx \o ToString(i)

\* [f":{pfx}{i}" for i in range(n)]
Placeholders(pfx, n) == [ i \in 1..n |-> <<":" \o ParamName(pfx, i - 1)>> ]

\* "col IN ({})".format(",".join(placeholders))
InClause(col, pfx, n) ==
    <<col, "IN", "(">> \o Join(Placeholders(pfx, n), ",") \o <<")">>

\* {f"{pfx}{i}": v for i, v in enumerate(sel)}
ParamDict(pfx, sel) ==
    [ k \in { ParamName(pfx, i - 1) : i \in DOMAIN sel } |->
        sel[CHOOSE i \in DOMAIN sel : ParamName(pfx, i - 1) = k] ]

\* dict.update: entries of new replace entries of old with the same key.
DictUpdate(old, new) ==
    [ k \in DOMAIN old \cup DOMAIN new |->
        IF k \in DOMAIN new THEN new[k] ELSE old[k] ]

EmptyDict == [ k \in {} |-> "" ]

\* The bound-parameter prefix of the Meal Type column.
MealPrefixShared == "f"
MealPrefix == "m"

\* One  `if sel: where_parts.append(...); params.update(...)`  block.
AddFilterAlways(acc, col, pfx, sel) ==
    [ params |-> DictUpdate(acc.params, ParamDict(pfx, sel)),
      parts |-> Append(acc.parts, InClause(col, pfx, Len(sel))) ]
AddFilter(acc, col, pfx, sel) ==
    IF Len(sel) > 0
    THEN [ params |-> DictUpdate(acc.params, ParamDict(pfx, sel)),
           parts |-> Append(acc.parts, InClause(col, pfx, Len(sel))) ]
    ELSE acc

\* where_parts, params after the four blocks, in source order.
BuildParts(c, p, f, m) ==
    AddFilter(
      AddFilter(
        AddFilter(
          AddFilter([ params |-> EmptyDict, parts |-> << >> ],
                    "fl.Location", "c", c),
          "fl.Provider_Type", "p", p),
        "fl.Food_Type", "f", f),
      "fl.Meal_Type", MealPrefix, m)

\* ("WHERE " + " AND ".join(where_parts)) if where_parts else ""
WhereSql(parts) ==
    IF Len(parts) > 0 THEN <<"WHERE">> \o Join(parts, "AND") ELSE << >>

\* ------------------------------------------------------------ the store
\* The claim statuses the update_claim form offers.
Statuses == { "Pending", "Completed", "Cancelled" }

\* The tables the statements of the model read and write.
TableNames == { "food_listings", "claims" }

NoRows == [ r \in {} |-> [ Food_ID |-> 0 ] ]

\* A table: present or dropped, and its rows by rowid.
Table(rows) == [ rows |-> rows, exists |-> TRUE ]
Dropped == [ rows |-> NoRows, exists |-> FALSE ]

\* A DataFrame, or the exception the call raised instead.
Frame(rows) == [ rows |-> rows, raised |-> FALSE ]
Raised == [ rows |-> << >>, raised |-> TRUE ]

\* ---- statements (text + parameters) that reach run_query
Stmt(kind, table, id) == [ kind |-> kind, table |-> table, id |-> id ]
NoStmt == Stmt("", "", 0)
TotalQuantity == Stmt("SELECT COALESCE(SUM(Quantity),0) FROM", "food_listings", 0)
ListingById(f) == Stmt("SELECT * FROM .. WHERE Food_ID =", "food_listings", f)
ClaimById(c) == Stmt("SELECT * FROM .. WHERE Claim_ID =", "claims", c)
DeleteAll(t) == Stmt("DELETE FROM", t, 0)
WithDeleteAll(t) == Stmt("WITH x AS (SELECT 1) DELETE FROM", t, 0)
WithUpdateQuantity(q) ==
    Stmt("WITH x AS (SELECT 1) UPDATE .. SET Quantity =", "food_listings", q)
WithInsertListing(q) ==
    Stmt("WITH x AS (SELECT 1) INSERT INTO .. (Quantity) VALUES", "food_listings", q)
WithUpdateStatus(s) ==
    Stmt("WITH x AS (SELECT 1) UPDATE .. SET Status = '" \o s \o "'", "claims", 0)
DropTable(t) == Stmt("DROP TABLE", t, 0)
CreateTable(t) == Stmt("CREATE TABLE", t, 0)
\* (table: the table the trigger is on, which goes when that table goes)
DropTrigger == Stmt("DROP TRIGGER casc", "food_listings", 0)
CreateTrigger ==
    Stmt("CREATE TRIGGER casc AFTER DELETE ON .. BEGIN DELETE FROM claims WHERE Food_ID = OLD.Food_ID; END",
         "food_listings", 0)

\* The rows with rowid in ids, in rowid order.
RECURSIVE RowsInOrder(_, _)
RowsInOrder(rows, ids) ==
    IF ids = {} THEN << >>
    ELSE LET m == CHOOSE i \in ids : \A j \in ids : i <= j
         IN  <<rows[m]>> \o RowsInOrder(rows, ids \ {m})

\* SUM(Quantity) over the rows with rowid in ids (0 for none: COALESCE).
RECURSIVE SumQuantity(_, _)
SumQuantity(rows, ids) ==
    IF ids = {} THEN 0
    ELSE LET m == CHOOSE i \in ids : TRUE
         IN  rows[m].Quantity + SumQuantity(rows, ids \ {m})

\* The result set of a SELECT on a present table.
Select(stmt, rows) ==
    IF stmt = TotalQuantity
      THEN << [ Total_Quantity |-> SumQuantity(rows, DOMAIN rows) ] >>
    ELSE IF stmt.kind = ListingById(0).kind
      THEN RowsInOrder(rows, { r \in DOMAIN rows : rows[r].Food_ID = stmt.id })
    ELSE RowsInOrder(rows, { r \in DOMAIN rows : rows[r].Claim_ID = stmt.id })

IsSelect(stmt) ==
    stmt.kind \in { TotalQuantity.kind, ListingById(0).kind, ClaimById(0).kind }

\* sqlite3 opens its implicit transaction only before a statement that starts
\* with INSERT, UPDATE, DELETE or REPLACE; any other statement runs in
\* autocommit mode and takes effect as it executes.
OpensTransaction(stmt) == stmt.kind = DeleteAll("").kind

\* DELETE on food_listings of the rows with rowid in gone.  With the cascade
\* trigger the claims on the deleted listings go too; the statement fails,
\* whatever it matches, when the trigger's table is missing.
DeleteListings(d, tg, gone) ==
    LET rows == d.food_listings.rows
        fids == { rows[r].Food_ID : r \in gone }
    IN  IF tg /\ ~d.claims.exists
          THEN [ db |-> d, raised |-> TRUE ]
        ELSE [ db |-> [ d EXCEPT
                         !.food_listings = Table([ r \in DOMAIN rows \ gone |-> rows[r] ]),
                         !.claims =
                            IF tg
                              THEN Table([ r \in { x \in DOMAIN d.claims.rows :
                                                     d.claims.rows[x].Food_ID \notin fids }
                                           |-> d.claims.rows[r] ])
                            ELSE d.claims ],
               raised |-> FALSE ]

\* UPDATE food_listings SET Quantity = q
SetQuantity(rows, q) == [ r \in DOMAIN rows |-> [ rows[r] EXCEPT !.Quantity = q ] ]

\* UPDATE claims SET Status = 's'
SetStatus(rows, s) == [ r \in DOMAIN rows |-> [ rows[r] EXCEPT !.Status = s ] ]

\* The rowid SQLite gives an inserted row: one more than the largest in use.
NextRowId(rows) ==
    IF DOMAIN rows = {} THEN 1
    ELSE 1 + (CHOOSE i \in DOMAIN rows : \A j \in DOMAIN rows : j <= i)

\* INSERT INTO food_listings (.., Quantity, ..) VALUES (.., :q, ..): no
\* Food_ID is given, the store assigns the row's identity (its rowid).
InsertListing(rows, q) ==
    LET r == NextRowId(rows) IN
    [ x \in DOMAIN rows \cup {r} |->
        IF x = r THEN [ Food_ID |-> r, Quantity |-> q ] ELSE rows[x] ]

\* A status typed in a statement, which the update_claim form does not offer.
OtherStatus == "Expired"
TypedStatuses == Statuses \cup { OtherStatus }

\* The body of run_query: connect, pd.read_sql_query(q, conn), close.  The
\* connection is closed without a commit, which rolls an open transaction
\* back.  A statement with no result set makes read_sql_query raise after it
\* was executed.  res is what the call returns, db and trig the store it
\* leaves.  A statement the store refuses (missing table, table or trigger
\* that exists already, trigger that does not exist) raises and changes
\* nothing.
ReadSqlQuery(stmt, d, tg) ==
    LET t == d[stmt.table]
        same == [ db |-> d, trig |-> tg, res |-> Raised ]
    IN
    IF stmt.kind = CreateTable("").kind
      THEN IF t.exists THEN same
           ELSE [ db |-> [ d EXCEPT ![stmt.table] = Table(NoRows) ],
                  trig |-> tg, res |-> Raised ]
    ELSE IF ~t.exists THEN same
    ELSE IF IsSelect(stmt)
      THEN [ db |-> d, trig |-> tg, res |-> Frame(Select(stmt, t.rows)) ]
    ELSE IF OpensTransaction(stmt) THEN same
    ELSE IF stmt.kind = DropTable("").kind
      THEN [ db |-> [ d EXCEPT ![stmt.table] = Dropped ],
             trig |-> tg /\ stmt.table # "food_listings",
             res |-> Raised ]
    ELSE IF stmt.kind = CreateTrigger.kind
      THEN [ db |-> d, trig |-> TRUE, res |-> Raised ]
    ELSE IF stmt.kind = DropTrigger.kind
      THEN [ db |-> d, trig |-> FALSE, res |-> Raised ]
    ELSE IF stmt.kind = WithUpdateQuantity(0).kind
      THEN [ db |-> [ d EXCEPT ![stmt.table] = Table(SetQuantity(t.rows, stmt.id)) ],
             trig |-> tg, res |-> Raised ]
    ELSE IF stmt.kind = WithInsertListing(0).kind
      THEN [ db |-> [ d EXCEPT ![stmt.table] = Table(InsertListing(t.rows, stmt.id)) ],
             trig |-> tg, res |-> Raised ]
    ELSE IF \E s \in TypedStatuses : stmt = WithUpdateStatus(s)
      THEN [ db |-> [ d EXCEPT ![stmt.table] =
                        Table(SetStatus(t.rows,
                                CHOOSE s \in TypedStatuses : stmt = WithUpdateStatus(s))) ],
             trig |-> tg, res |-> Raised ]
    ELSE IF stmt.table = "food_listings"
      THEN [ db |-> DeleteListings(d, tg, DOMAIN t.rows).db, trig |-> tg, res |-> Raised ]
    ELSE [ db |-> [ d EXCEPT ![stmt.table] = Table(NoRows) ], trig |-> tg, res |-> Raised ]

\* ---- st.cache_data: statement+params -> entry.  stale records that the
\* entry was memoized before a later committed exec_write.
EmptyCache == [ k \in {} |-> [ res |-> Raised, stale |-> FALSE ] ]

CachePut(c, k, e) == [ x \in DOMAIN c \cup {k} |-> IF x = k THEN e ELSE c[x] ]

MarkStale(c) == [ k \in DOMAIN c |-> [ c[k] EXCEPT !.stale = TRUE ] ]

\* @st.cache_data run_query: a hit returns the memoized frame; a miss runs the
\* body and memoizes what it returns (nothing when it raises).
RunQuery(stmt, d, tg, c) ==
    IF stmt \in DOMAIN c
    THEN [ db |-> d, trig |-> tg, cache |-> c, res |-> c[stmt].res,
           stale |-> c[stmt].stale, hit |-> TRUE ]
    ELSE LET x == ReadSqlQuery(stmt, d, tg) IN
         [ db |-> x.db, trig |-> x.trig,
           cache |-> IF x.res.raised THEN c
                     ELSE CachePut(c, stmt, [ res |-> x.res, stale |-> FALSE ]),
           res |-> x.res, stale |-> FALSE, hit |-> FALSE ]

\* safe_query: run_query, with an exception turned into a warning and an
\* empty DataFrame.
SafeQuery(stmt, d, tg, c) ==
    LET r == RunQuery(stmt, d, tg, c) IN
    [ r EXCEPT !.res = IF r.res.raised THEN Frame(<< >>) ELSE r.res ]

\* ---- writes: the operation of a CRUD form and the parameters it binds
Write(op, id, qty, status) == [ id |-> id, op |-> op, qty |-> qty, status |-> status ]

WriteTable(w) == IF w.op = "update_claim" THEN "claims" ELSE "food_listings"

\* UPDATE claims SET Status = :s WHERE Claim_ID = :cid
UpdateStatus(rows, cid, s) ==
    [ r \in DOMAIN rows |->
        IF rows[r].Claim_ID = cid THEN [ rows[r] EXCEPT !.Status = s ] ELSE rows[r] ]

\* exec_write: connect, execute one statement, commit.  It raises when the
\* store refuses the statement (fault: locked file, constraint) or the table
\* is missing; the connection's context manager then rolls back.
ExecWrite(w, d, tg, fault) ==
    LET del == DeleteListings(d, tg, { r \in DOMAIN d.food_listings.rows :
                                         d.food_listings.rows[r].Food_ID = w.id })
    IN
    IF fault \/ ~d[WriteTable(w)].exists \/ (w.op = "delete_listing" /\ del.raised)
      THEN [ db |-> d, raised |-> TRUE ]
    ELSE [ db |-> IF w.op = "add_listing"
                    THEN [ d EXCEPT !.food_listings =
                             Table(InsertListing(d.food_listings.rows, w.qty)) ]
                  ELSE IF w.op = "update_claim"
                    THEN [ d EXCEPT !.claims =
                             Table(UpdateStatus(d.claims.rows, w.id, w.status)) ]
                  ELSE del.db,
           raised |-> FALSE ]

\* The try/except of a form handler around st.cache_data.clear(): the cache
\* is cleared when the handler reached that line, left alone when exec_write
\* raised or the run was abandoned at the st.success / st.warning before it.
ClearNever(reached, c) == c
ClearAlways(reached, c) == EmptyCache
ClearAfterWrite(reached, c) == IF reached THEN EmptyCache ELSE c

\* The st.* call a form handler makes: st.success / st.warning, or st.error.
Report(w, ok) ==
    IF ~ok THEN "st.error"
    ELSE IF w.op = "delete_listing" THEN "st.warning" ELSE "st.success"

\* ---- history records: the operation, whether it returned or raised, how a
\* read was served, the st.* call that reported it, and, for a write that
\* raised, the store and the memo as exec_write found them.
Snapshot(d, c) == [ db |-> d, cache |-> c ]
NoSnapshot == Snapshot([ t \in TableNames |-> Dropped ], EmptyCache)
Event(op, ok, hit, stale, msg, before) ==
    [ stale |-> stale, hit |-> hit, op |-> op, ok |-> ok, msg |-> msg,
      before |-> before ]
NoWrite == Write("", 0, 0, "")
NoEvent == Event("", TRUE, FALSE, FALSE, "", NoSnapshot)

ReadOps == { "safe_query", "custom_sql" }
WriteOps == { "add_listing", "update_claim", "delete_listing" }

\* What a read shows: safe_query turns an exception into st.warning and an
\* empty frame, the Custom SQL tab shows st.success or st.error.
ReadEvent(op, raised, hit, stale) ==
    IF op = "safe_query"
      THEN Event(op, TRUE, hit, stale, IF raised THEN "st.warning" ELSE "", NoSnapshot)
    ELSE Event(op, ~raised, hit, stale,
               IF raised THEN "st.error" ELSE "st.success", NoSnapshot)

\* ---- inputs
FoodIds == 1..MaxId
ClaimIds == 1..MaxId
Quantities == 1..MaxQty

\* The script's own query of the total, and what a user may type in the
\* Custom SQL tab.
ScriptStmts == { TotalQuantity }
CustomStmts ==
    { TotalQuantity }
      \cup { ListingById(f) : f \in FoodIds }
      \cup { ClaimById(c) : c \in ClaimIds }
      \cup { DeleteAll("food_listings"), CreateTrigger, DropTrigger }
      \cup { WithInsertListing(q) : q \in Quantities }
      \cup { WithUpdateQuantity(q) : q \in Quantities }
      \cup { WithUpdateStatus(s) : s \in TypedStatuses }
      \cup { WithDeleteAll(t) : t \in TableNames }
      \cup { DropTable(t) : t \in TableNames }
      \cup { CreateTable(t) : t \in TableNames }

\* The rowid an insert would take stays within the identities of the model.
WithinIds(stmt, d) ==
    stmt.kind = WithInsertListing(0).kind => NextRowId(d.food_listings.rows) <= MaxId

\* ---- the store a session starts from
InitialListings ==
    UNION { [ S -> { [ Food_ID |-> f, Quantity |-> q ] : f \in FoodIds, q \in Quantities } ]
            : S \in SUBSET (1..(MaxId - 1)) }

\* No claim, or claim 1 on listing 1 in any status.
InitialClaims ==
    { NoRows } \cup
    { [ r \in {1} |-> [ Food_ID |-> 1, Claim_ID |-> r, Status |-> st ] ] : st \in Statuses }

InitStore ==
    /\ \E fl \in { x \in InitialListings : \A r \in DOMAIN x : x[r].Food_ID = r } :
       \E cl \in InitialClaims :
         db = [ food_listings |-> Table(fl), claims |-> Table(cl) ]
    /\ trig = FALSE
    /\ cache = EmptyCache
    /\ ev = NoEvent

IdleFilter ==
    /\ city_f = << >> /\ ptype_f = << >> /\ ftype_f = << >> /\ mtype_f = << >>
    /\ where_parts = << >> /\ params = EmptyDict /\ where_sql = << >>
    /\ fpc = "idle"

NoSessions == [ s \in {} |-> 0 ]

\* ---- one session: the operations of its passes, one at a time
Init == InitStore /\ IdleFilter /\ sess = NoSessions

\* A fixed query of the script, through safe_query.
SafeQueryStep ==
    \E stmt \in ScriptStmts :
      LET r == SafeQuery(stmt, db, trig, cache) IN
        /\ Cardinality(DOMAIN r.cache) <= MaxMemo
        /\ db' = r.db
        /\ trig' = r.trig
        /\ cache' = r.cache
        /\ ev' = ReadEvent("safe_query", RunQuery(stmt, db, trig, cache).res.raised,
                           r.hit, r.stale)
        /\ UNCHANGED <<fvars, sess>>

\* The Custom SQL tab: run_query on the text entered.
CustomSqlStep ==
    \E stmt \in CustomStmts :
      LET r == RunQuery(stmt, db, trig, cache) IN
        /\ WithinIds(stmt, db)
        /\ Cardinality(DOMAIN r.cache) <= MaxMemo
        /\ db' = r.db
        /\ trig' = r.trig
        /\ cache' = r.cache
        /\ ev' = ReadEvent("custom_sql", r.res.raised, r.hit, r.stale)
        /\ UNCHANGED <<fvars, sess>>

\* A submitted CRUD form: exec_write, then the st.* call that reports the
\* outcome, then (after st.success / st.warning) st.cache_data.clear().  With
\* abandoned the run ends at the st.success / st.warning: the committed write
\* then leaves the memo as it was.  (After st.error the handler does nothing
\* more, so a run abandoned there leaves what a run that goes on leaves.)
\* An entry is marked stale when the handler goes on to the clear: it was
\* memoized before a write whose handler called clear.
FormHandler(op, id, qty, status, fault, abandoned) ==
    LET w == Write(op, id, qty, status)
        x == ExecWrite(w, db, trig, fault)
        ok == ~x.raised
        reached == ok /\ ~abandoned
    IN  /\ db' = x.db
        /\ trig' = trig
        /\ cache' = ClearAfterWrite(reached, IF reached THEN MarkStale(cache) ELSE cache)
        /\ ev' = Event(w.op, ok, FALSE, FALSE, Report(w, ok),
                       IF ok THEN NoSnapshot ELSE Snapshot(db, cache))
        /\ UNCHANGED <<fvars, sess>>

\* Where a handler can be abandoned with an effect: at the report of a
\* write that did not meet a fault.
AbandonedAfter(fault) == IF fault THEN { FALSE } ELSE BOOLEAN

AddListingStep ==
    \E q \in Quantities, fault \in BOOLEAN :
     \E abandoned \in AbandonedAfter(fault) :
      /\ NextRowId(db.food_listings.rows) <= MaxId
      /\ FormHandler("add_listing", 0, q, "", fault, abandoned)

UpdateClaimStep ==
    \E c \in ClaimIds, s \in Statuses, fault \in BOOLEAN :
     \E abandoned \in AbandonedAfter(fault) :
      FormHandler("update_claim", c, 0, s, fault, abandoned)

DeleteListingStep ==
    \E f \in FoodIds, fault \in BOOLEAN :
     \E abandoned \in AbandonedAfter(fault) :
      FormHandler("delete_listing", f, 0, "", fault, abandoned)

Next ==
    \/ SafeQueryStep
    \/ CustomSqlStep
    \/ AddListingStep
    \/ UpdateClaimStep
    \/ DeleteListingStep

Spec == Init /\ [][Next]_vars

\* -------------------------------------------------- one session: claims
\* The total a frame of the total-quantity query shows.
TotalOf(res) == res.rows[1].Total_Quantity

\* C1: in one session, once a write has succeeded and its handler has
\* called st.cache_data.clear(), no later read returns a result memoized
\* before that write (stale marks exactly the entries memoized before a
\* write whose handler called clear).
C1_ReadsObserveWrite ==
    ev.op \in ReadOps => ~ev.stale

\* Witness of C1: the listing with the largest rowid has been written (no
\* store starts with it), and the script's total query has just been served
\* from an entry that is not stale and counts that row.
C1_Witness ==
    /\ ev.op = "safe_query" /\ ev.hit /\ ~ev.stale
    /\ MaxId \in DOMAIN db.food_listings.rows
    /\ TotalQuantity \in DOMAIN cache
    /\ TotalOf(cache[TotalQuantity].res)
         = SumQuantity(db.food_listings.rows, DOMAIN db.food_listings.rows)

\* C2 as stated: no call of run_query, whatever the statement text, changes
\* the contents of the tables.
CX2_ReadPathNeverMutates ==
    [][ (SafeQueryStep \/ CustomSqlStep) => db' = db ]_vars

\* C3: when exec_write raises, the store is as before the call, the handler
\* reports the error and leaves the cache alone.
C3_FailedWriteNoEffect ==
    (ev.op \in WriteOps /\ ~ev.ok) =>
      /\ db = ev.before.db
      /\ cache = ev.before.cache
      /\ ev.msg = "st.error"

\* Witness of C3: add_listing has just failed on a present table with
\* memoized reads in the cache, which are still there.
C3_Witness ==
    /\ ev.op = "add_listing" /\ ~ev.ok /\ ev.msg = "st.error"
    /\ db.food_listings.exists
    /\ TotalQuantity \in DOMAIN cache

\* C6 as stated: after a successful add_listing with quantity q, the
\* total-quantity query returns what it returned before the write, plus q.
CX6_TotalGrowsByQuantity ==
    [][ \A q \in Quantities, abandoned \in BOOLEAN :
          (FormHandler("add_listing", 0, q, "", FALSE, abandoned) /\ ev'.ok) =>
            TotalOf(RunQuery(TotalQuantity, db', trig', cache').res)
              = TotalOf(RunQuery(TotalQuantity, db, trig, cache).res) + q ]_vars

\* C7 as stated: after update_claim reports success for claim c and status
\* s (the handler ran to its end), the query of claim c returns a row whose
\* status is s.
CX7_UpdatedClaimHasStatus ==
    [][ \A c \in ClaimIds, s \in Statuses :
          (FormHandler("update_claim", c, 0, s, FALSE, FALSE) /\ ev'.ok) =>
            LET r == RunQuery(ClaimById(c), db', trig', cache').res IN
              /\ ~r.raised
              /\ Len(r.rows) >= 1
              /\ \A i \in DOMAIN r.rows : r.rows[i].Status = s ]_vars

\* C8 as stated: after delete_listing succeeds for identity f (its DELETE
\* has committed), the query of listing f returns zero rows, and every
\* listing with another identity is still there, unchanged, and is what its
\* query returns.
CX8_DeletedListingGone ==
    [][ \A f \in FoodIds, abandoned \in BOOLEAN :
          (FormHandler("delete_listing", f, 0, "", FALSE, abandoned) /\ ev'.ok) =>
            LET before == db.food_listings.rows
                after == db'.food_listings.rows
            IN  /\ RunQuery(ListingById(f), db', trig', cache').res = Frame(<< >>)
                /\ \A r \in DOMAIN before :
                     before[r].Food_ID # f =>
                       /\ r \in DOMAIN after
                       /\ after[r] = before[r]
                       /\ RunQuery(ListingById(before[r].Food_ID), db', trig', cache').res
                            = Frame(<< before[r] >>) ]_vars

\* C9 as stated: delete_listing leaves the claims table as it was, claims on
\* the deleted listing included.
CX9_DeleteKeepsClaims ==
    [][ DeleteListingStep => db'.claims = db.claims ]_vars

\* ------------------------------------------- concurrent sessions
\* Every session runs its passes on a thread of its own; the store file and
\* the st.cache_data memo are shared by the process.  The sessions run the
\* script's cached read, the three CRUD forms and the Custom SQL texts that
\* are no SELECT.  A cached read is three
\* steps (look the key up, run the body on a miss, memoize the result), a
\* form handler two (exec_write commits; then the report and, unless the run
\* is abandoned at the report, st.cache_data.clear()).
\* Here stale is the set of sessions whose committed write came after the
\* result was computed, and whose handler has not been abandoned.
Sessions == 1..NumSessions

Idle == [ stmt |-> NoStmt, res |-> Frame(<< >>), stale |-> {}, w |-> NoWrite,
          pc |-> "idle", orphan |-> FALSE ]

MarkStaleBy(c, s) == [ k \in DOMAIN c |-> [ c[k] EXCEPT !.stale = @ \cup {s} ] ]
UnmarkStaleBy(c, s) == [ k \in DOMAIN c |-> [ c[k] EXCEPT !.stale = @ \ {s} ] ]

InitConc == InitStore /\ IdleFilter /\ sess = [ s \in Sessions |-> Idle ]

\* run_query, step 1: the memo is looked up; a hit returns the entry.
RunQueryLookup(s) ==
    /\ sess[s].pc = "idle"
    /\ \E stmt \in ScriptStmts :
         IF stmt \in DOMAIN cache
         THEN /\ ev' = ReadEvent("safe_query", cache[stmt].res.raised, TRUE,
                                 cache[stmt].stale # {})
              /\ UNCHANGED sess
         ELSE /\ sess' = [ sess EXCEPT ![s] =
                             [ Idle EXCEPT !.pc = "miss", !.stmt = stmt ] ]
              /\ UNCHANGED ev
    /\ UNCHANGED <<db, trig, cache, fvars>>

\* run_query, step 2: on a miss the body runs against the store.
RunQueryBody(s) ==
    /\ sess[s].pc = "miss"
    /\ LET x == ReadSqlQuery(sess[s].stmt, db, trig) IN
         /\ db' = x.db
         /\ trig' = x.trig
         /\ sess' = [ sess EXCEPT ![s].pc = "computed", ![s].res = x.res ]
    /\ UNCHANGED <<cache, ev, fvars>>

\* run_query, step 3: the result is memoized and returned (nothing is
\* memoized when the body raised).  When the memo was cleared while the body
\* ran, the entry may land in the cleared memo or in none.
RunQueryStore(s) ==
    /\ sess[s].pc = "computed"
    /\ \E lands \in (IF sess[s].orphan THEN BOOLEAN ELSE {TRUE}) :
         cache' = IF lands /\ ~sess[s].res.raised
                  THEN CachePut(cache, sess[s].stmt,
                                [ res |-> sess[s].res, stale |-> sess[s].stale ])
                  ELSE cache
    /\ ev' = ReadEvent("safe_query", sess[s].res.raised, FALSE, sess[s].stale # {})
    /\ sess' = [ sess EXCEPT ![s] = Idle ]
    /\ UNCHANGED <<db, trig, fvars>>

\* The Custom SQL tab with a text that is no SELECT: the lookup misses (no
\* such text is ever memoized), the body executes the statement and raises,
\* nothing is memoized.  The store changes in the one step that executes it.
CustomSqlConc(s) ==
    /\ sess[s].pc = "idle"
    /\ \E stmt \in { c \in CustomStmts : ~IsSelect(c) } :
         LET x == ReadSqlQuery(stmt, db, trig) IN
           /\ WithinIds(stmt, db)
           /\ db' = x.db
           /\ trig' = x.trig
           /\ ev' = ReadEvent("custom_sql", x.res.raised, FALSE, FALSE)
    /\ UNCHANGED <<cache, sess, fvars>>

\* A form handler, step 1: exec_write.  A commit makes every memoized or
\* computed result a result of the store before the write.
ExecWriteStep(s, op, id, qty, status, fault) ==
    /\ sess[s].pc = "idle"
    /\ LET w == Write(op, id, qty, status)
           x == ExecWrite(w, db, trig, fault)
       IN
         /\ db' = x.db
         /\ trig' = trig
         /\ IF x.raised
            THEN /\ ev' = Event(w.op, FALSE, FALSE, FALSE, Report(w, FALSE),
                                 Snapshot(db, cache))
                 /\ UNCHANGED <<cache, sess>>
            ELSE /\ cache' = MarkStaleBy(cache, s)
                 /\ sess' = [ t \in Sessions |->
                      IF t = s
                        THEN [ Idle EXCEPT !.pc = "written", !.w = w ]
                      ELSE IF sess[t].pc = "computed"
                        THEN [ sess[t] EXCEPT !.stale = @ \cup {s} ]
                      ELSE sess[t] ]
                 /\ UNCHANGED ev
    /\ UNCHANGED fvars

\* A form handler, step 2: the report (st.success / st.warning) and
\* st.cache_data.clear().  With abandoned the run ends at the report and the
\* memo is left as it is.
CacheClearStep(s) ==
    /\ sess[s].pc = "written"
    /\ \E abandoned \in BOOLEAN :
         /\ cache' = ClearAfterWrite(~abandoned,
                                     IF abandoned THEN UnmarkStaleBy(cache, s) ELSE cache)
         /\ sess' = [ t \in Sessions |->
                        IF t = s THEN Idle
                        ELSE IF abandoned
                          THEN [ sess[t] EXCEPT !.stale = @ \ {s} ]
                        ELSE IF sess[t].pc \in { "miss", "computed" }
                          THEN [ sess[t] EXCEPT !.orphan = TRUE ]
                        ELSE sess[t] ]
    /\ ev' = Event(sess[s].w.op, TRUE, FALSE, FALSE, Report(sess[s].w, TRUE),
                   NoSnapshot)
    /\ UNCHANGED <<db, trig, fvars>>

AddListingConc(s) ==
    \E q \in Quantities, fault \in BOOLEAN :
      /\ NextRowId(db.food_listings.rows) <= MaxId
      /\ ExecWriteStep(s, "add_listing", 0, q, "", fault)

UpdateClaimConc(s) ==
    \E c \in ClaimIds, st \in Statuses, fault \in BOOLEAN :
      ExecWriteStep(s, "update_claim", c, 0, st, fault)

DeleteListingConc(s) ==
    \E f \in FoodIds, fault \in BOOLEAN :
      ExecWriteStep(s, "delete_listing", f, 0, "", fault)

NextConc ==
    \E s \in Sessions :
      \/ RunQueryLookup(s)
      \/ RunQueryBody(s)
      \/ RunQueryStore(s)
      \/ CustomSqlConc(s)
      \/ AddListingConc(s)
      \/ UpdateClaimConc(s)
      \/ DeleteListingConc(s)
      \/ CacheClearStep(s)

SpecConc == InitConc /\ [][NextConc]_vars

\* C10 as stated: with two sessions, under every interleaving, once a write
\* has committed and its clear has run the cache holds no result of the
\* store before the write, and no read is served such an entry, not even
\* between the commit and the clear.
CX10_NoStaleReadConcurrent ==
    /\ (ev.op \in ReadOps /\ ev.hit) => ~ev.stale
    /\ (\A s \in DOMAIN sess : sess[s].pc # "written") =>
          \A k \in DOMAIN cache : cache[k].stale = {}

\* ---- the filter builder as a state machine: a pass reads the four
\* multiselects and builds the filter; a widget change starts a new pass.
InitFilter ==
    /\ city_f \in Selections("City")
    /\ ptype_f \in Selections("Type")
    /\ ftype_f \in Selections("Food")
    /\ mtype_f \in Selections("Meal")
    /\ where_parts = << >>
    /\ params = EmptyDict
    /\ where_sql = << >>
    /\ fpc = "widgets"
    /\ sess = NoSessions
    /\ db = [ t \in TableNames |-> Table(NoRows) ]
    /\ trig = FALSE
    /\ cache = EmptyCache
    /\ ev = NoEvent

BuildFilter ==
    /\ fpc = "widgets"
    /\ LET b == BuildParts(city_f, ptype_f, ftype_f, mtype_f) IN
         /\ where_parts' = b.parts
         /\ params' = b.params
         /\ where_sql' = WhereSql(b.parts)
    /\ fpc' = "built"
    /\ UNCHANGED <<city_f, ptype_f, ftype_f, mtype_f, svars, sess>>

NextFilter == BuildFilter

SpecFilter == InitFilter /\ [][NextFilter]_vars

\* ------------------------------------------------ filter builder: claims
\* The four filters in source order: column, selection.
FilterColumns ==
    << [ col |-> "fl.Location",      sel |-> city_f  ],
       [ col |-> "fl.Provider_Type", sel |-> ptype_f ],
       [ col |-> "fl.Food_Type",     sel |-> ftype_f ],
       [ col |-> "fl.Meal_Type",     sel |-> mtype_f ] >>

ColumnNames == { FilterColumns[i].col : i \in 1..4 }

SqlSyntax == { "WHERE", "AND", "IN", "(", ")", "," } \cup ColumnNames

CountTokens(sql, S) == Cardinality({ i \in DOMAIN sql : sql[i] \in S })

NonEmptyColumns == SelectSeq(FilterColumns, LAMBDA fc : Len(fc.sel) > 0)

TotalSelected == Len(city_f) + Len(ptype_f) + Len(ftype_f) + Len(mtype_f)

\* The column tokens of the predicate, in the order they occur.
ColumnsOf(sql) == SelectSeq(sql, LAMBDA t : t \in ColumnNames)

\* C4: the built predicate has exactly one IN clause per non-empty selection,
\* joined by AND in column order, with as many placeholders as selected
\* values; with every selection empty the predicate is the empty string and
\* the parameter mapping is empty.
C4_FilterShape ==
    fpc = "built" =>
      /\ CountTokens(where_sql, {"IN"}) = Len(NonEmptyColumns)
      /\ ColumnsOf(where_sql) = [ i \in 1..Len(NonEmptyColumns) |-> NonEmptyColumns[i].col ]
      /\ \A i \in DOMAIN where_sql :
           where_sql[i] \in ColumnNames =>
             /\ i > 1
             /\ where_sql[i - 1] = (IF i = 2 THEN "WHERE" ELSE "AND")
             /\ i + 2 <= Len(where_sql)
             /\ where_sql[i + 1] = "IN"
             /\ where_sql[i + 2] = "("
      /\ CountTokens(where_sql, {"AND"}) =
           (IF Len(NonEmptyColumns) = 0 THEN 0 ELSE Len(NonEmptyColumns) - 1)
      /\ CountTokens(where_sql, {"WHERE"}) = (IF Len(NonEmptyColumns) = 0 THEN 0 ELSE 1)
      /\ Len(where_sql) - CountTokens(where_sql, SqlSyntax) = TotalSelected
      /\ (TotalSelected = 0 => where_sql = << >> /\ DOMAIN params = {})

\* Witness of C4: a build with an empty selection between two non-empty ones.
C4_Witness ==
    /\ fpc = "built"
    /\ Len(city_f) = 2 /\ Len(ptype_f) = 0 /\ Len(ftype_f) = 1 /\ Len(mtype_f) = 0
    /\ Len(where_parts) = 2

\* Position in where_sql of the clause of column col (0 when it has none).
ClauseStart(col) ==
    IF \E i \in DOMAIN where_sql : where_sql[i] = col
    THEN CHOOSE i \in DOMAIN where_sql : where_sql[i] = col
    ELSE 0

\* C5: bound-parameter names are unique across the columns of one build: the
\* mapping has one entry per placeholder, and the placeholder at position i
\* of a column's clause names the entry bound to the i-th selected value of
\* that column.
C5_ParamsUnique ==
    fpc = "built" =>
      /\ Cardinality(DOMAIN params) = TotalSelected
      /\ \A c \in 1..4 :
           LET sel == FilterColumns[c].sel
               at  == ClauseStart(FilterColumns[c].col)
           IN  Len(sel) > 0 =>
                 /\ at > 0
                 /\ \A i \in DOMAIN sel :
                      /\ at + 1 + 2 * i <= Len(where_sql)
                      /\ \E k \in DOMAIN params :
                           /\ where_sql[at + 1 + 2 * i] = ":" \o k
                           /\ params[k] = sel[i]

\* Witness of C5: all four filters selected, with several values each.
C5_Witness ==
    /\ fpc = "built"
    /\ Len(city_f) = 2 /\ Len(ptype_f) = 2 /\ Len(ftype_f) = 2 /\ Len(mtype_f) = 2
    /\ Cardinality(DOMAIN params) = 8

====
